---- MODULE Spec2Model ----
(***************************************************************************)
(* SkillHub: an Express server with JWT authentication over two tables,   *)
(* users(id, username, email, password) and                               *)
(* skills(id, user_id, skill_name, proficiency).                          *)
(*                                                                         *)
(* Every route handler is one action, except POST /register, whose three  *)
(* database round trips and the bcrypt call are separate steps of a       *)
(* per-request process, because other requests run between its awaits.    *)
(* The other handlers issue a single SQL statement, which the database    *)
(* executes atomically.  The database is taken to answer every query (the *)
(* 500 branches of the handlers are not modelled).                        *)
(*                                                                         *)
(* Text values are strings; a password and a bcrypt hash are sequences of *)
(* strings, so that a hash and a plaintext can be compared.  An           *)
(* Authorization header is a sequence of parts, a part being a literal    *)
(* piece of text or a JSON Web Token.                                      *)
(***************************************************************************)
EXTENDS Integers, Sequences, FiniteSets, TLC

\* ---------------------------------------------------------------- bounds

\* At most this many rows are ever inserted into users.
MaxUsers == 2
\* At most this many rows are ever inserted into skills.
MaxSkills == 2
\* The clock advances at most this many times.
MaxTicks == 2

\* ------------------------------------------------------ program constants

\* expiresIn: '1h', in seconds
TTL == 3600
\* the signing secret of jwt.sign and jwt.verify
Secret == "your_secret_key"
\* the prefix authenticate removes from the Authorization header
BearerPrefix == "Bearer "

\* ----------------------------------------------------------------- inputs

Usernames == {"alice", "bob"}
Emails == {"a@x.com", "b@x.com"}
Passwords == {<<"pw1">>, <<"pw2">>}
SkillNames == {"Go", "Rust"}
Proficiencies == {"expert"}
\* bcrypt draws a fresh salt for every hash
Salts == {"s1"}
\* request handlers of POST /register that may be in flight together
Procs == {1, 2}
\* the clock advances by one second or by one token lifetime
TickSteps == {1, TTL}
\* a missing (or empty) text field of a JSON body, and a missing password
Missing == ""
NoPassword == << >>

VARIABLES
  users,        \* table users: a set of rows
  skills,       \* table skills: a set of rows
  nextUserId,   \* the serial sequence behind users.id
  nextSkillId,  \* the serial sequence behind skills.id
  reg,          \* the POST /register handlers in flight, per process
  wallet,       \* the token the client got from its last successful login
  now,          \* the clock, in seconds
  ticks,        \* how many times the clock has advanced
  res,          \* the last response sent, with the request it answers
  created,      \* history: created[id] is the userId claim that authenticated
                \* the POST /skills request which inserted skill id
  deleted,      \* history: the skill ids a DELETE /skills/:id has removed
  plain         \* history: plain[id] is the password submitted at the
                \* registration that inserted user id

vars == <<users, skills, nextUserId, nextSkillId, reg, wallet, now, ticks,
          res, created, deleted, plain>>

\* --------------------------------------------------------------- bcrypt

\* bcrypt.hash(password, 10): the version and cost prefix, the salt, and a
\* digest that stands for the one-way image of the password under the salt.
BcryptHash(password, salt) == <<"$2b$10$", salt>> \o password

\* bcrypt.compare(password, hash): false for anything that is not a hash.
BcryptCompare(password, hash) ==
  /\ Len(hash) = Len(password) + 2
  /\ hash[1] = "$2b$10$"
  /\ SubSeq(hash, 3, Len(hash)) = password

\* ------------------------------------------------------------------ JWT

NoClaims == [userId |-> 0, username |-> "", email |-> "", iat |-> 0, exp |-> 0]

\* A part of a header: literal text, or a token (payload and signature).
Lit(text) == [lit |-> text, payload |-> NoClaims, sig |-> <<"", NoClaims>>]
NoToken == Lit("")
IsJwt(part) == part.lit = "" /\ part # NoToken

\* jwt.sign(payload, key, {expiresIn}): iat and exp are added to the payload
\* and the signature covers the whole payload.
JwtSign(claims, key, expiresIn, clock) ==
  LET payload == [userId |-> claims.userId, username |-> claims.username,
                  email |-> claims.email, iat |-> clock,
                  exp |-> clock + expiresIn]
  IN [lit |-> "", payload |-> payload, sig |-> <<key, payload>>]

\* jwt.verify with ignoreExpiration, and jwt.decode in the place of jwt.verify.
JwtVerifiesIgnoringExpiry(token, key, clock) ==
  /\ Len(token) = 1
  /\ IsJwt(token[1])
  /\ token[1].sig = <<key, token[1].payload>>
JwtDecodes(token, key, clock) ==
  /\ Len(token) = 1
  /\ IsJwt(token[1])
  /\ clock < token[1].payload.exp

\* jwt.verify(token, key): the token string must be one well-formed token,
\* signed with key over this payload, and not expired: jsonwebtoken throws
\* TokenExpiredError when clockTimestamp >= payload.exp.
JwtVerifies(token, key, clock) ==
  /\ Len(token) = 1
  /\ IsJwt(token[1])
  /\ token[1].sig = <<key, token[1].payload>>
  /\ clock < token[1].payload.exp

\* ------------------------------------------------------------- responses

NoRes ==
  [op |-> "none", status |-> 0, error |-> "", header |-> << >>,
   hasHeader |-> FALSE, at |-> 0, verifyCalled |-> FALSE, handlerRan |-> FALSE,
   user |-> NoClaims, changed |-> FALSE, rows |-> {}, token |-> NoToken,
   id |-> 0, name |-> "", prof |-> "", email |-> "", password |-> NoPassword,
   emailTaken |-> FALSE, usernameTaken |-> FALSE, existed |-> FALSE,
   owner |-> 0]

IdleReg ==
  [pc |-> "idle", username |-> "", email |-> "", password |-> NoPassword,
   hashedPassword |-> << >>, emailTaken |-> FALSE, usernameTaken |-> FALSE]

Init ==
  /\ users = {}
  /\ skills = {}
  /\ nextUserId = 1
  /\ nextSkillId = 1
  /\ reg = [p \in Procs |-> IdleReg]
  /\ wallet = NoToken
  /\ now = 0
  /\ ticks = 0
  /\ res = NoRes
  /\ created = << >>
  /\ deleted = {}
  /\ plain = << >>

\* The clock.
Tick(d) ==
  /\ ticks < MaxTicks
  /\ now' = now + d
  /\ ticks' = ticks + 1
  /\ UNCHANGED <<users, skills, nextUserId, nextSkillId, reg, wallet, res,
                 created, deleted, plain>>

\* Whether the step at hand changes a table: read once the step has fixed
\* users' and skills'.
DbChanged == users' # users \/ skills' # skills

\* ------------------------------------------------------------- the pool

\* The email lookup with its result dropped.
SelectUsersNone(email) == {}

\* SELECT * FROM users WHERE email = $1
SelectUsersByEmail(email) == {u \in users : u.email = email}

\* SELECT * FROM users WHERE username = $1
SelectUsersByUsername(username) == {u \in users : u.username = username}

\* The row of INSERT INTO users (username, email, password) VALUES ($1, $2, $3)
\* RETURNING *; the id is the next value of the table's sequence.
NewUserRow(username, email, password) ==
  [id |-> nextUserId, username |-> username, email |-> email,
   password |-> password]

\* ------------------------------------------------------- POST /register

InFlight == {p \in Procs : reg[p].pc # "idle"}

\* The handler up to its first await.  A body with a field missing is
\* answered at once; otherwise the email lookup is sent.
RegisterStart(p, username, email, password) ==
  /\ reg[p].pc = "idle"
  /\ UNCHANGED <<users, skills, nextUserId, nextSkillId, wallet, now, ticks,
                 created, deleted, plain>>
  /\ IF username = Missing \/ email = Missing \/ password = NoPassword
     THEN /\ res' = [NoRes EXCEPT !.op = "POST /register", !.status = 400,
                       !.error = "Please provide all required fields (username, email, password)",
                       !.handlerRan = TRUE, !.email = email,
                       !.name = username, !.password = password,
                       !.changed = DbChanged,
                       !.emailTaken = (\E u \in users : u.email = email),
                       !.usernameTaken =
                          (\E u \in users : u.username = username)]
          /\ UNCHANGED reg
     ELSE /\ Cardinality(users) + Cardinality(InFlight) < MaxUsers
          /\ reg' = [reg EXCEPT ![p] =
                       [pc |-> "checkEmail", username |-> username,
                        email |-> email, password |-> password,
                        hashedPassword |-> << >>,
                        emailTaken |-> (\E u \in users : u.email = email),
                        usernameTaken |->
                          (\E u \in users : u.username = username)]]
          /\ UNCHANGED res

\* The response of a register handler that ends without inserting.
RegisterConflict(p, error) ==
  [NoRes EXCEPT !.op = "POST /register", !.status = 400, !.error = error,
                !.handlerRan = TRUE, !.email = reg[p].email,
                !.name = reg[p].username, !.password = reg[p].password,
                !.changed = DbChanged,
                !.emailTaken = reg[p].emailTaken,
                !.usernameTaken = reg[p].usernameTaken]

\* checkEmail: the first round trip and the test of its result.
RegisterCheckEmail(p) ==
  /\ reg[p].pc = "checkEmail"
  /\ UNCHANGED <<users, skills, nextUserId, nextSkillId, wallet, now, ticks,
                 created, deleted, plain>>
  /\ IF SelectUsersByEmail(reg[p].email) # {}
     THEN /\ res' = RegisterConflict(p, "Email already exists")
          /\ reg' = [reg EXCEPT ![p] = IdleReg]
     ELSE /\ reg' = [reg EXCEPT ![p].pc = "checkUsername"]
          /\ UNCHANGED res

\* checkUsername: the second round trip, the test of its result and, when no
\* row was found, bcrypt.hash(password, 10).
RegisterCheckUsername(p, salt) ==
  /\ reg[p].pc = "checkUsername"
  /\ UNCHANGED <<users, skills, nextUserId, nextSkillId, wallet, now, ticks,
                 created, deleted, plain>>
  /\ IF SelectUsersByUsername(reg[p].username) # {}
     THEN /\ res' = RegisterConflict(p, "Username already exists")
          /\ reg' = [reg EXCEPT ![p] = IdleReg]
     ELSE /\ reg' = [reg EXCEPT ![p].pc = "insert",
                                ![p].hashedPassword =
                                   BcryptHash(reg[p].password, salt)]
          /\ UNCHANGED res

\* The third parameter of the INSERT.
StoredPasswordPlain(password, hashedPassword) == password
StoredPassword(password, hashedPassword) == hashedPassword

\* The third round trip, the INSERT, and the 201 response.
RegisterInsert(p) ==
  /\ reg[p].pc = "insert"
  /\ LET row == NewUserRow(reg[p].username, reg[p].email,
                           StoredPassword(reg[p].password,
                                          reg[p].hashedPassword))
     IN /\ users' = users \cup {row}
        /\ UNCHANGED skills
        /\ nextUserId' = nextUserId + 1
        /\ plain' = Append(plain, reg[p].password)
        /\ res' = [NoRes EXCEPT !.op = "POST /register", !.status = 201,
                     !.handlerRan = TRUE, !.changed = DbChanged,
                     !.rows = {row}, !.password = reg[p].password,
                     !.email = reg[p].email, !.name = reg[p].username,
                     !.emailTaken = reg[p].emailTaken,
                     !.usernameTaken = reg[p].usernameTaken]
  /\ reg' = [reg EXCEPT ![p] = IdleReg]
  /\ UNCHANGED <<nextSkillId, wallet, now, ticks, created, deleted>>

\* ---------------------------------------------------------- POST /login

\* The payload handed to jwt.sign.
LoginClaims(user) ==
  [userId |-> user.id, username |-> user.username, email |-> user.email]

\* How long a token lives: expiresIn of jwt.sign.
ExpiresIn == TTL

Login(email, password) ==
  /\ UNCHANGED <<users, skills, nextUserId, nextSkillId, reg, now, ticks,
                 created, deleted, plain>>
  /\ LET base == [NoRes EXCEPT !.op = "POST /login", !.handlerRan = TRUE,
                               !.changed = DbChanged,
                               !.at = now, !.email = email,
                               !.password = password]
     IN IF email = Missing \/ password = NoPassword
        THEN /\ res' = [base EXCEPT !.status = 400,
                          !.error = "Please provide both email and password"]
             /\ UNCHANGED wallet
        ELSE IF SelectUsersByEmail(email) = {}
        THEN /\ res' = [base EXCEPT !.status = 404,
                                    !.error = "User not found"]
             /\ UNCHANGED wallet
        ELSE \E user \in SelectUsersByEmail(email) :  \* result.rows[0]
               IF ~BcryptCompare(password, user.password)
               THEN /\ res' = [base EXCEPT !.status = 401,
                                           !.error = "Incorrect password"]
                    /\ UNCHANGED wallet
               ELSE LET token == JwtSign(LoginClaims(user), Secret,
                                         ExpiresIn, now)
                    IN /\ res' = [base EXCEPT !.status = 200,
                                              !.token = token]
                       /\ wallet' = token

\* --------------------------------------------------------- authenticate

\* String.prototype.replace(pattern, ''): the header without the first
\* occurrence of the pattern, wherever it stands; unchanged when there is none.
RECURSIVE Replace(_, _)
Replace(header, pattern) ==
  IF header = << >> THEN << >>
  ELSE IF Head(header) = pattern THEN Tail(header)
  ELSE <<Head(header)>> \o Replace(Tail(header), pattern)

\* req.header('Authorization')?.replace('Bearer ', ''): undefined for a
\* request without the header; undefined and '' are both falsy.
AuthToken(hasHeader, header) ==
  IF hasHeader THEN Replace(header, Lit(BearerPrefix)) ELSE << >>

\* The middleware: what it answers, or next() with req.user set.
authenticate(hasHeader, header) ==
  LET token == AuthToken(hasHeader, header)
  IN IF token = << >>
     THEN [next |-> FALSE, status |-> 401,
           error |-> "Access denied, token missing",
           verifyCalled |-> FALSE, user |-> NoClaims]
     ELSE IF JwtVerifies(token, Secret, now)
     THEN [next |-> TRUE, status |-> 0, error |-> "",
           verifyCalled |-> TRUE, user |-> token[1].payload]
     ELSE [next |-> FALSE, status |-> 400, error |-> "Invalid token",
           verifyCalled |-> TRUE, user |-> NoClaims]

\* The response of a protected route whose request the middleware rejected.
Rejected(op, hasHeader, header) ==
  LET a == authenticate(hasHeader, header)
  IN [NoRes EXCEPT !.op = op, !.hasHeader = hasHeader, !.header = header,
                   !.at = now, !.status = a.status, !.error = a.error,
                   !.verifyCalled = a.verifyCalled, !.changed = DbChanged]

\* The start of the response of a protected route whose handler runs.
Accepted(op, hasHeader, header) ==
  LET a == authenticate(hasHeader, header)
  IN [NoRes EXCEPT !.op = op, !.hasHeader = hasHeader, !.header = header,
                   !.at = now, !.verifyCalled = a.verifyCalled,
                   !.handlerRan = TRUE, !.user = a.user,
                   !.changed = DbChanged]

\* ----------------------------------------------------------- GET /users

GetUsers(hasHeader, header) ==
  /\ UNCHANGED <<users, skills, nextUserId, nextSkillId, reg, wallet, now,
                 ticks, created, deleted, plain>>
  /\ IF ~authenticate(hasHeader, header).next
     THEN res' = Rejected("GET /users", hasHeader, header)
     ELSE res' = [Accepted("GET /users", hasHeader, header) EXCEPT
                    !.status = 200, !.rows = users]

\* ---------------------------------------------------------- GET /skills

\* SELECT * FROM skills WHERE user_id = $1
SelectSkillsAll(userId) == skills
SelectSkillsByUser(userId) == {s \in skills : s.user_id = userId}

GetSkills(hasHeader, header) ==
  /\ UNCHANGED <<users, skills, nextUserId, nextSkillId, reg, wallet, now,
                 ticks, created, deleted, plain>>
  /\ IF ~authenticate(hasHeader, header).next
     THEN res' = Rejected("GET /skills", hasHeader, header)
     ELSE LET userId == authenticate(hasHeader, header).user.userId
          IN res' = [Accepted("GET /skills", hasHeader, header) EXCEPT
                       !.status = 200, !.rows = SelectSkillsByUser(userId)]

\* --------------------------------------------------------- POST /skills

\* The first parameter of the INSERT: const userId = req.user.userId.
SkillOwnerFromBody(user, body) == body.user_id
SkillOwner(user, body) == user.userId

\* The row of INSERT INTO skills (user_id, skill_name, proficiency) VALUES
\* ($1, $2, $3) RETURNING *; the id is the next value of the table's sequence.
NewSkillRow(userId, skill_name, proficiency) ==
  [id |-> nextSkillId, user_id |-> userId, skill_name |-> skill_name,
   proficiency |-> proficiency]

\* body: {skill_name, proficiency} and whatever else the client sends, here
\* a user_id.
AddSkill(hasHeader, header, body) ==
  /\ UNCHANGED <<users, nextUserId, reg, wallet, now, ticks, deleted, plain>>
  /\ IF ~authenticate(hasHeader, header).next
     THEN /\ UNCHANGED <<skills, nextSkillId, created>>
          /\ res' = Rejected("POST /skills", hasHeader, header)
     ELSE LET user == authenticate(hasHeader, header).user
              base == [Accepted("POST /skills", hasHeader, header) EXCEPT
                         !.name = body.skill_name, !.prof = body.proficiency,
                         !.id = body.user_id]
          IN IF body.skill_name = Missing \/ body.proficiency = Missing
             THEN /\ UNCHANGED <<skills, nextSkillId, created>>
                  /\ res' = [base EXCEPT !.status = 400,
                               !.error = "Please provide both skill name and proficiency"]
             ELSE LET row == NewSkillRow(SkillOwner(user, body),
                                         body.skill_name, body.proficiency)
                  IN /\ nextSkillId <= MaxSkills
                     /\ skills' = skills \cup {row}
                     /\ nextSkillId' = nextSkillId + 1
                     /\ created' = Append(created, user.userId)
                     /\ res' = [base EXCEPT !.status = 201, !.rows = {row}]

\* ------------------------------------------------------ PUT /skills/:id

\* The rows of UPDATE skills ... WHERE id = $3 and of DELETE FROM skills
\* WHERE id = $1.
WhereIdOwned(skillId) ==
  {s \in skills : s.id = skillId /\ s.user_id = wallet.payload.userId}
WhereId(skillId) == {s \in skills : s.id = skillId}

\* SET skill_name = $1, proficiency = $2
UpdateSet(s, skill_name, proficiency) ==
  [s EXCEPT !.skill_name = skill_name, !.proficiency = proficiency]

UpdateSkill(hasHeader, header, skillId, skill_name, proficiency) ==
  /\ UNCHANGED <<users, nextUserId, nextSkillId, reg, wallet, now, ticks,
                 created, deleted, plain>>
  /\ IF ~authenticate(hasHeader, header).next
     THEN /\ UNCHANGED skills
          /\ res' = Rejected("PUT /skills/:id", hasHeader, header)
     ELSE LET base == [Accepted("PUT /skills/:id", hasHeader, header) EXCEPT
                         !.id = skillId, !.name = skill_name,
                         !.prof = proficiency,
                         !.existed = (\E s \in skills : s.id = skillId),
                         !.owner = IF \E s \in skills : s.id = skillId
                                   THEN (CHOOSE s \in skills :
                                           s.id = skillId).user_id
                                   ELSE 0]
          IN IF skill_name = Missing \/ proficiency = Missing
             THEN /\ UNCHANGED skills
                  /\ res' = [base EXCEPT !.status = 400,
                               !.error = "Please provide both skill name and proficiency"]
             ELSE LET hit == WhereId(skillId)
                      rows == {UpdateSet(s, skill_name, proficiency) :
                                 s \in hit}
                  IN /\ skills' = (skills \ hit) \cup rows
                     /\ IF rows = {}
                        THEN res' = [base EXCEPT !.status = 404,
                                       !.error = "Skill not found"]
                        ELSE res' = [base EXCEPT !.status = 200,
                                       !.rows = rows]

\* --------------------------------------------------- DELETE /skills/:id

DeleteSkill(hasHeader, header, skillId) ==
  /\ UNCHANGED <<users, nextUserId, nextSkillId, reg, wallet, now, ticks,
                 created, plain>>
  /\ IF ~authenticate(hasHeader, header).next
     THEN /\ UNCHANGED <<skills, deleted>>
          /\ res' = Rejected("DELETE /skills/:id", hasHeader, header)
     ELSE LET base == [Accepted("DELETE /skills/:id", hasHeader, header)
                         EXCEPT
                         !.id = skillId,
                         !.existed = (\E s \in skills : s.id = skillId),
                         !.owner = IF \E s \in skills : s.id = skillId
                                   THEN (CHOOSE s \in skills :
                                           s.id = skillId).user_id
                                   ELSE 0]
              rows == WhereId(skillId)
          IN /\ skills' = skills \ rows
             /\ IF rows = {}
                THEN /\ res' = [base EXCEPT !.status = 404,
                                  !.error = "Skill not found"]
                     /\ UNCHANGED deleted
                ELSE /\ res' = [base EXCEPT !.status = 200]
                     /\ deleted' = deleted \cup {skillId}

\* ---------------------------------------------------------- the clients

\* A token whose payload was changed after it was signed.
Tamper(token) ==
  [token EXCEPT !.payload.userId = (token.payload.userId % (MaxUsers + 1)) + 1]

\* A token with the same claims signed with another key.
Resign(token) ==
  [token EXCEPT !.sig = <<"another_key", token.payload>>]

\* The Authorization headers a client sends: the token of its last login as
\* 'Bearer <token>', bare, or under another scheme; that token tampered with
\* or signed with another key; text that is no token; an empty header; the
\* prefix alone.
BearerHeaders ==
  IF wallet = NoToken THEN {}
  ELSE {<<Lit(BearerPrefix), wallet>>, <<Lit(BearerPrefix), Tamper(wallet)>>}

OddHeaders ==
  {<< >>, <<Lit(BearerPrefix)>>, <<Lit(BearerPrefix), Lit("garbage")>>}
  \cup (IF wallet = NoToken THEN {}
        ELSE {<<wallet>>, <<Lit("Basic "), wallet>>,
              <<Lit(BearerPrefix), Resign(wallet)>>})

SkillIds == 1..(MaxSkills + 1)

\* The people who sign up in the scenarios below.
Alice == [username |-> "alice", email |-> "a@x.com", password |-> <<"pw1">>]
Bob == [username |-> "bob", email |-> "b@x.com", password |-> <<"pw1">>]

\* The user_id a client may put in the body of POST /skills (0: none).
BodyUserIds == {0, 1}

Bodies(names, profs, ids) ==
  [skill_name : names, proficiency : profs, user_id : ids]

\* Any protected request with header h.
Protected(hasHeader, h, names, profs, ids, owners) ==
  \/ GetUsers(hasHeader, h)
  \/ GetSkills(hasHeader, h)
  \/ \E body \in Bodies(names, profs, owners) :
       AddSkill(hasHeader, h, body)
  \/ \E id \in ids, n \in names, pr \in profs :
       UpdateSkill(hasHeader, h, id, n, pr)
  \/ \E id \in ids : DeleteSkill(hasHeader, h, id)

\* One registration at a time.
RegisterAlone(bodies) ==
  \/ \E b \in bodies : RegisterStart(1, b.username, b.email, b.password)
  \/ RegisterCheckEmail(1)
  \/ \E salt \in Salts : RegisterCheckUsername(1, salt)
  \/ RegisterInsert(1)

\* ------------------------------------------------------- specifications

\* Registrations in flight together, and logins.
NextRegister ==
  \/ \E p \in Procs, u \in Usernames \cup {Missing},
        e \in Emails \cup {Missing}, pw \in Passwords \cup {NoPassword} :
       RegisterStart(p, u, e, pw)
  \/ \E p \in Procs : RegisterCheckEmail(p)
  \/ \E p \in Procs, salt \in Salts : RegisterCheckUsername(p, salt)
  \/ \E p \in Procs : RegisterInsert(p)
  \/ \E e \in Emails \cup {Missing}, pw \in Passwords \cup {NoPassword} :
       Login(e, pw)

SpecRegister == Init /\ [][NextRegister]_vars

\* The same requests with one registration at a time.
NextSequential ==
  \/ RegisterAlone([username : Usernames, email : Emails,
                    password : Passwords])
  \/ \E e \in Emails \cup {Missing}, pw \in Passwords \cup {NoPassword} :
       Login(e, pw)

SpecSequential == Init /\ [][NextSequential]_vars

\* The middleware: every shape of header on every protected route, while
\* the clock runs.
NextAuth ==
  \/ RegisterAlone({Alice})
  \/ Login("a@x.com", <<"pw1">>)
  \/ \E d \in TickSteps : Tick(d)
  \/ Protected(FALSE, << >>, {"Go"}, {"expert"}, {1}, {0})
  \/ \E h \in BearerHeaders \cup OddHeaders :
       Protected(TRUE, h, {"Go"}, {"expert"}, {1}, {0})

SpecAuth == Init /\ [][NextAuth]_vars

\* The skill handlers, called by logged-in users.
NextSkills ==
  \/ RegisterAlone({Alice, Bob})
  \/ \E e \in Emails : Login(e, <<"pw1">>)
  \/ \E h \in BearerHeaders :
       Protected(TRUE, h, SkillNames \cup {Missing},
                 Proficiencies \cup {Missing}, SkillIds, BodyUserIds)

Spec == Init /\ [][NextSkills]_vars

\* ---------------------------------------------------------------- claims

ProtectedOps ==
  {"GET /users", "GET /skills", "POST /skills", "PUT /skills/:id",
   "DELETE /skills/:id"}

\* What a request presents as its token: the header, less a leading prefix.
Presented(r) ==
  IF r.header # << >> /\ Head(r.header) = Lit(BearerPrefix)
  THEN Tail(r.header) ELSE r.header

\* The presented text is one token signed with the signing secret.
SignedWithSecret(r) ==
  /\ Len(Presented(r)) = 1
  /\ Presented(r)[1].lit = ""
  /\ Presented(r)[1].sig = <<Secret, Presented(r)[1].payload>>

\* C1: on a protected route, a request that carries a token has its handler
\* run only if the token is signed with the signing secret and the time of the
\* request is not past the token's expiry, which is one hour after its issue;
\* a token that is not so signed, or was issued more than one hour before, is
\* answered 400 'Invalid token', the handler does not run and no table
\* changes; when the handler runs, req.user is the token's payload.
C1_HandlerOnlyIfVerified ==
  (res.op \in ProtectedOps /\ res.hasHeader /\ Presented(res) # << >>) =>
    /\ res.handlerRan =>
         /\ SignedWithSecret(res)
         /\ res.at <= Presented(res)[1].payload.exp
         /\ res.user = Presented(res)[1].payload
    /\ SignedWithSecret(res) =>
         Presented(res)[1].payload.exp = Presented(res)[1].payload.iat + TTL
    /\ (\/ ~SignedWithSecret(res)
        \/ res.at - Presented(res)[1].payload.iat > TTL) =>
         /\ res.status = 400
         /\ res.error = "Invalid token"
         /\ ~res.handlerRan
         /\ ~res.changed
         /\ res.user = NoClaims

\* C1's case: a token of a login, presented one hour and one second later.
C1_Witness ==
  /\ res.op \in ProtectedOps
  /\ res.hasHeader
  /\ SignedWithSecret(res)
  /\ res.at - Presented(res)[1].payload.iat = TTL + 1
  /\ res.status = 400

\* C2: on a protected route, a request whose Authorization header is absent
\* or does not start with 'Bearer ' is answered 401, without a call of
\* jwt.verify and without the handler running.
C2_NoBearerPrefixIs401 ==
  (/\ res.op \in ProtectedOps
   /\ \/ ~res.hasHeader
      \/ res.header = << >>
      \/ Head(res.header) # Lit(BearerPrefix)) =>
    /\ res.status = 401
    /\ ~res.verifyCalled
    /\ ~res.handlerRan

\* The password is the one hashed into this stored value.
HashOf(password, stored) == \E salt \in Salts : stored = BcryptHash(password, salt)

\* (C3 and C4 below hold under SpecSequential and fail under SpecRegister.)

\* C3: POST /login with email and password present answers 404 when no row
\* has the email; 401 when a row has it and the password is not the one of
\* its hash; 200 when a row has it and the password is the one of its hash,
\* with a token the middleware accepts and whose claims are that row's id,
\* username and email; and it changes no table.
C3_LoginOutcome ==
  (res.op = "POST /login" /\ res.email # Missing
     /\ res.password # NoPassword) =>
    LET rows == {u \in users : u.email = res.email}
    IN /\ rows = {} => res.status = 404
       /\ \A u \in rows :
            IF HashOf(res.password, u.password)
            THEN /\ res.status = 200
                 /\ authenticate(TRUE, <<Lit(BearerPrefix), res.token>>).next
                 /\ res.token.payload.userId = u.id
                 /\ res.token.payload.username = u.username
                 /\ res.token.payload.email = u.email
            ELSE res.status = 401
       /\ ~res.changed

\* C4: no two rows of users have the same email, and no two the same
\* username.
C4_UniqueUsers ==
  \A u, v \in users :
    u # v => (u.email # v.email /\ u.username # v.username)

C9_PasswordStoredHashed ==
  /\ \A u \in users :
       /\ u.id \in DOMAIN plain
       /\ u.password # plain[u.id]
       /\ HashOf(plain[u.id], u.password)
       /\ \A pw \in Passwords : pw # plain[u.id] => ~HashOf(pw, u.password)
  /\ (res.op = "POST /login" /\ res.status = 200) =>
       \E u \in users : u.email = res.email /\ plain[u.id] = res.password
  /\ (res.op = "POST /login" /\ res.status = 401) =>
       \E u \in users : u.email = res.email /\ plain[u.id] # res.password

\* C9's case: a registered user has logged in with the registered password.
C9_Witness ==
  /\ res.op = "POST /login"
  /\ res.status = 200
  /\ \E u \in users : u.email = res.email /\ u.password # res.password

\* C6: the user_id of every row of skills is the userId claim of the token
\* that authenticated the POST /skills which inserted the row, whatever
\* user_id the body of that request held; no request changes the id or the
\* user_id of a row; PUT /skills/:id changes skill_name and proficiency only.
C6_OwnerSetOnceFromToken ==
  /\ \A s \in skills :
       /\ s.id \in DOMAIN created
       /\ s.user_id = created[s.id]
  /\ \A s, t \in skills : s.id = t.id => s = t
  /\ (res.op = "POST /skills" /\ res.status = 201) =>
       \E s \in skills :
         /\ res.rows = {s}
         /\ s.user_id = res.user.userId
         /\ s.id = Len(created)
  /\ (res.op = "PUT /skills/:id" /\ res.status = 200) =>
       \E s \in skills :
         /\ res.rows = {s}
         /\ s.id = res.id
         /\ s.user_id = res.owner
         /\ s.skill_name = res.name
         /\ s.proficiency = res.prof

\* C6's case: the body of POST /skills names another user.
C6_Witness ==
  /\ res.op = "POST /skills"
  /\ res.status = 201
  /\ res.id # 0
  /\ res.id # res.user.userId
  /\ \E s \in skills : s.user_id = res.id

\* C7: GET /skills with a verified token answers 200 with the rows of skills
\* whose user_id is the token's userId, all of them and no others: the rows
\* that user's POST /skills requests inserted and no DELETE removed (none for
\* a user who never added a skill); it changes no table.
C7_ListsOwnSkills ==
  (res.op = "GET /skills" /\ res.handlerRan) =>
    /\ res.status = 200
    /\ res.rows = {s \in skills : s.user_id = res.user.userId}
    /\ {s.id : s \in res.rows} =
         {i \in DOMAIN created : created[i] = res.user.userId} \ deleted
    /\ ~res.changed

\* C7's case: the caller has a skill and so has another user.
C7_Witness ==
  /\ res.op = "GET /skills"
  /\ res.status = 200
  /\ res.rows # {}
  /\ \E s \in skills : s.user_id # res.user.userId

C10_SkillOwnerExists ==
  \A s \in skills : \E u \in users : u.id = s.user_id

\* C10's case: a logged-in user has added a skill.
C10_Witness ==
  /\ skills # {}
  /\ wallet # NoToken
  /\ \E s \in skills : s.user_id = wallet.payload.userId

====
